---- MODULE Spec2Model ----
(***************************************************************************)
(* Model of the two page components of the repository:                     *)
(*   - the playlist browser  (src/pages/Playlists.tsx)                     *)
(*   - the phase view        (src/pages/ipad/phaseA/index.tsx)             *)
(* Each page is a React component: its state is the useState cells, its    *)
(* operations are the effects, the event handlers and the continuations    *)
(* of the handlers after each await.                                       *)
(***************************************************************************)
EXTENDS Integers, Sequences, FiniteSets, TLC

Null == "null"

Range(s) == {s[i] : i \in 1..Len(s)}

(***************************************************************************)
(* Bounds                                                                  *)
(***************************************************************************)
\* number of GET /api/playlists/:id/tracks requests one run may issue
MaxRequests == 3

(***************************************************************************)
(* Playlist browser: the backend behind /api/playlists                     *)
(***************************************************************************)
PlaylistIds == {"p1", "p2", "p3"}

\* body.playlists of GET /api/playlists
ServerPlaylists == <<"p1", "p2", "p3">>

\* body.tracks of GET /api/playlists/:id/tracks (track ids; p3 is empty)
ServerTracks(p) ==
  CASE p = "p1" -> <<"t1">>
    [] p = "p2" -> <<"t2", "t3">>
    [] OTHER    -> <<>>

\* What a fetch() round trip can produce: a 2xx body with the field, a 2xx
\* body without it, a non-2xx status, a rejected promise carrying an Error,
\* or a thrown value that is not an Error.
ResponseKinds == {"ok", "okNoField", "notOk", "reject", "rejectOther"}

\* err instanceof Error ? err.message : 'Unknown error occurred'
ErrorMessage(err) ==
  IF err.isError THEN err.message ELSE "Unknown error occurred"

\* the value caught by the catch block of fetchPlaylists
PlaylistsThrown(kind) ==
  CASE kind = "notOk"  -> [isError |-> TRUE, message |-> "Failed to fetch playlists"]
    [] kind = "reject" -> [isError |-> TRUE, message |-> "Failed to fetch"]
    [] OTHER           -> [isError |-> FALSE, message |-> ""]

\* `Failed to fetch tracks for playlist ${playlistId}`
TracksFailure(p) ==
  CASE p = "p1" -> "Failed to fetch tracks for playlist p1"
    [] p = "p2" -> "Failed to fetch tracks for playlist p2"
    [] OTHER    -> "Failed to fetch tracks for playlist p3"

\* the value caught by the catch block of fetchTracks
TracksThrown(kind, p) ==
  CASE kind = "notOk"  -> [isError |-> TRUE, message |-> TracksFailure(p)]
    [] kind = "reject" -> [isError |-> TRUE, message |-> "Failed to fetch"]
    [] OTHER           -> [isError |-> FALSE, message |-> ""]

TracksUrl(p) == <<"/api/playlists", p, "tracks">>

VARIABLES
  \* ---- playlist browser ----
  playlists,         \* useState<Playlist[]>([])
  selectedPlaylist,  \* useState<string | null>(null)
  tracks,            \* useState<PlaylistTrack[]>([])
  error,             \* useState<string | null>(null)
  loadingPlaylists,  \* useState<boolean>(false)
  loadingTracks,     \* useState<boolean>(false)
  plFetch,           \* position of the mount effect: "unmounted", "inflight", "done"
  inflight,          \* fetchTracks calls suspended at their await, per playlist id
  requests           \* the HTTP requests issued so far, in order

plVars == <<playlists, selectedPlaylist, tracks, error, loadingPlaylists,
            loadingTracks, plFetch, inflight, requests>>

VARIABLES
  \* ---- hosted database ----
  sessions2,      \* rows of table sessions2
  users,          \* rows of table users
  phases2,        \* table phases2: phase id -> (select_tracks, select_tracks_user_id)
  faults,         \* the tables whose round trips can fail on the way
  \* ---- phase view, one page per client ----
  page,           \* "absent", "unmounted", "phaseA", "player"
  query,          \* router.query
  userA,          \* useState<string | null>(null)
  userB,          \* useState<string | null>(null)
  userATracks,    \* useState<TrackData[]>([])
  userBTracks,    \* useState<TrackData[]>([])
  selectedTrack,  \* useState('')
  searchTermA,    \* useState('')
  searchTermB,    \* useState('')
  pending,        \* database reads in flight
  issued,         \* number of requests issued so far, per table
  dbErrors,       \* number of replies that carried an error so far, per table
  handlers,       \* the invocations of the submit handlers, in order of the clicks
  alerts,         \* alert() dialogs shown: how many times each text
  console,        \* console.error lines written: how many times each text
  pushes          \* router.push calls, in order

phVars == <<sessions2, users, phases2, faults, page, query, userA, userB, userATracks,
            userBTracks, selectedTrack, searchTermA, searchTermB, pending,
            issued, dbErrors, handlers, alerts, console, pushes>>

vars == <<plVars, phVars>>

\* the playlist browser before its first render
PlaylistsIdle ==
  /\ playlists = <<>>
  /\ selectedPlaylist = Null
  /\ tracks = <<>>
  /\ error = Null
  /\ loadingPlaylists = FALSE
  /\ loadingTracks = FALSE
  /\ plFetch = "unmounted"
  /\ inflight = [p \in PlaylistIds |-> 0]
  /\ requests = <<>>

\* useEffect(() => { fetchPlaylists() }, []) up to its await
fetchPlaylists ==
  /\ plFetch = "unmounted"
  /\ loadingPlaylists' = TRUE
  /\ requests' = Append(requests, <<"/api/playlists">>)
  /\ plFetch' = "inflight"
  /\ UNCHANGED <<playlists, selectedPlaylist, tracks, error, loadingTracks, inflight>>
  /\ UNCHANGED phVars

\* fetchPlaylists after the await: try body, catch, finally
fetchPlaylistsResume(kind) ==
  /\ plFetch = "inflight"
  /\ plFetch' = "done"
  /\ IF kind = "ok"
       THEN playlists' = ServerPlaylists /\ UNCHANGED error
       ELSE IF kind = "okNoField"
         THEN playlists' = <<>> /\ UNCHANGED error
         ELSE error' = ErrorMessage(PlaylistsThrown(kind)) /\ UNCHANGED playlists
  /\ loadingPlaylists' = FALSE
  /\ UNCHANGED <<selectedPlaylist, tracks, loadingTracks, inflight, requests>>
  /\ UNCHANGED phVars

\* number of tracks requests issued so far (the first request is the list)
TracksRequested == Len(SelectSeq(requests, LAMBDA r : Len(r) = 3))

\* The list items (and so the click handlers) are rendered only when the
\* component did not return the error view.
Clickable(p) == error = Null /\ p \in Range(playlists)

\* fetchTracks without the toggle branch: every click fetches
fetchTracksAlwaysFetches(p) ==
  /\ Clickable(p)
  /\ TracksRequested < MaxRequests
  /\ loadingTracks' = TRUE
  /\ selectedPlaylist' = p
  /\ requests' = Append(requests, TracksUrl(p))
  /\ inflight' = [inflight EXCEPT ![p] = @ + 1]
  /\ UNCHANGED <<tracks, playlists, error, loadingPlaylists, plFetch>>
  /\ UNCHANGED phVars

\* fetchTracks(playlistId), from the click up to the first await (or the
\* early return of the toggle branch)
fetchTracks(p) ==
  /\ Clickable(p)
  /\ IF p = selectedPlaylist
       THEN /\ selectedPlaylist' = Null
            /\ tracks' = <<>>
            /\ UNCHANGED <<loadingTracks, inflight, requests>>
       ELSE /\ TracksRequested < MaxRequests
            /\ loadingTracks' = TRUE
            /\ selectedPlaylist' = p
            /\ requests' = Append(requests, TracksUrl(p))
            /\ inflight' = [inflight EXCEPT ![p] = @ + 1]
            /\ UNCHANGED tracks
  /\ UNCHANGED <<playlists, error, loadingPlaylists, plFetch>>
  /\ UNCHANGED phVars

\* fetchTracks whose try body resets the error once a response is good
fetchTracksResumeClearsError(p, kind) ==
  /\ inflight[p] > 0
  /\ inflight' = [inflight EXCEPT ![p] = @ - 1]
  /\ IF kind = "ok"
       THEN tracks' = ServerTracks(p) /\ error' = Null
       ELSE IF kind = "okNoField"
         THEN tracks' = <<>> /\ error' = Null
         ELSE error' = ErrorMessage(TracksThrown(kind, p)) /\ UNCHANGED tracks
  /\ loadingTracks' = FALSE
  /\ UNCHANGED <<playlists, selectedPlaylist, loadingPlaylists, plFetch, requests>>
  /\ UNCHANGED phVars

\* fetchTracks(playlistId) after the await: try body, catch, finally
fetchTracksResume(p, kind) ==
  /\ inflight[p] > 0
  /\ inflight' = [inflight EXCEPT ![p] = @ - 1]
  /\ IF kind = "ok"
       THEN tracks' = ServerTracks(p) /\ UNCHANGED error
       ELSE IF kind = "okNoField"
         THEN tracks' = <<>> /\ UNCHANGED error
         ELSE error' = ErrorMessage(TracksThrown(kind, p)) /\ UNCHANGED tracks
  /\ loadingTracks' = FALSE
  /\ UNCHANGED <<playlists, selectedPlaylist, loadingPlaylists, plFetch, requests>>
  /\ UNCHANGED phVars

(***************************************************************************)
(* Phase view: routing parameters, the hosted database, the page state     *)
(***************************************************************************)
Clients == {"c1", "c2"}

Undefined == "undefined"

\* JavaScript truthiness of a string | null | undefined
Falsy(v) == v \in {Undefined, Null, ""}

\* Number(s) is not-a-number for a string that is not a numeral; no routing
\* parameter of the model denotes -1
NaN == -1

\* Number(s) on the routing parameter strings of the model
Number(s) ==
  CASE s = ""   -> 0
    [] s = "1"  -> 1
    [] s = "2"  -> 2
    [] s = "3"  -> 3
    [] s = "9"  -> 9
    [] s = "09" -> 9
    [] OTHER    -> NaN

\* const phaseNumbersNum = phase_numbers ? Number(phase_numbers) : 0
phaseNumbersNum(q) == IF Falsy(q.phase_numbers) THEN 0 ELSE Number(q.phase_numbers)

\* const directionNum = directions ? Number(directions) : 0
directionNum(q) == IF Falsy(q.directions) THEN 0 ELSE Number(q.directions)

\* routing parameters a page can be opened with
Queries ==
  [session_id    : {Undefined, "s1"},
   phase_id      : {Undefined, "ph1"},
   phase_numbers : {Undefined, "9", "09"},
   directions    : {Undefined, "1", "2", "3"}]

\* routing parameters of two pages open on the same phase, one showing user
\* A's view and one user B's
RaceQuery(c) ==
  [session_id |-> "s1", phase_id |-> "ph1", phase_numbers |-> "1",
   directions |-> IF c = "c1" THEN "1" ELSE "2"]

NoQuery ==
  [session_id |-> Undefined, phase_id |-> Undefined,
   phase_numbers |-> Undefined, directions |-> Undefined]

\* text as the list of its characters
Chars == {"A", "a", "B", "b", "c"}

\* String.prototype.toLowerCase, per character
LowerChar(ch) ==
  CASE ch = "A" -> "a"
    [] ch = "B" -> "b"
    [] OTHER    -> ch

toLowerCase(str) == [i \in 1..Len(str) |-> LowerChar(str[i])]

\* String.prototype.includes
includes(str, sub) ==
  \E i \in 0..(Len(str) - Len(sub)) :
    \A j \in 1..Len(sub) : str[i + j] = sub[j]

\* what the user can type into the search box
SearchTerms == {<<>>, <<"B">>}

\* table track2
Track2 ==
  << [spotify_track_id |-> "t1", user_id |-> "uA", name |-> <<"A", "b">>,
      self_disclosure_level |-> 1],
     [spotify_track_id |-> "t2", user_id |-> "uA", name |-> <<"c">>,
      self_disclosure_level |-> 2],
     [spotify_track_id |-> "t3", user_id |-> "uA", name |-> <<"b">>,
      self_disclosure_level |-> 0],
     [spotify_track_id |-> "t4", user_id |-> "uB", name |-> <<"a", "B">>,
      self_disclosure_level |-> 3] >>

\* a database in which the session has both participants and both are users
FullDb ==
  [sessions2 |-> {[id |-> "s1", user_a |-> "uA", user_b |-> "uB"]},
   users     |-> {[spotify_user_id |-> "uA"], [spotify_user_id |-> "uB"]}]

\* the contents tables sessions2 and users can have
DbVariants ==
  { [sessions2 |-> {[id |-> "s1", user_a |-> "uA", user_b |-> "uB"]},
     users     |-> {[spotify_user_id |-> "uA"], [spotify_user_id |-> "uB"]}],
    [sessions2 |-> {[id |-> "s1", user_a |-> "uA", user_b |-> Null]},
     users     |-> {[spotify_user_id |-> "uA"], [spotify_user_id |-> "uB"]}],
    [sessions2 |-> {},
     users     |-> {[spotify_user_id |-> "uA"], [spotify_user_id |-> "uB"]}],
    [sessions2 |-> {[id |-> "s1", user_a |-> "uA", user_b |-> "uB"]},
     users     |-> {[spotify_user_id |-> "uA"]}] }

PhaseIds == {"ph1", "ph2"}

NoPhase == [select_tracks |-> Null, select_tracks_user_id |-> Null]

\* number of submit handler invocations in one run, all clients together
MaxHandlers == 2

Tables == {"sessions2", "track2", "users", "phases2"}

\* the texts of the alert() calls of the page
AlertTexts == {"no track selected", "userA lookup failed", "userB lookup failed",
               "update failed", "track decided"}

\* the texts of the console.error calls of the page
ConsoleTexts == {"Failed to fetch session user_a", "Error fetching tracks:",
                 "phases update error:"}

\* no phase view is open
PhasesIdle ==
  /\ sessions2 = {}
  /\ users = {}
  /\ phases2 = [p \in PhaseIds |-> NoPhase]
  /\ faults = {}
  /\ page = [c \in Clients |-> "absent"]
  /\ query = [c \in Clients |-> NoQuery]
  /\ userA = [c \in Clients |-> Null]
  /\ userB = [c \in Clients |-> Null]
  /\ userATracks = [c \in Clients |-> <<>>]
  /\ userBTracks = [c \in Clients |-> <<>>]
  /\ selectedTrack = [c \in Clients |-> ""]
  /\ searchTermA = [c \in Clients |-> <<>>]
  /\ searchTermB = [c \in Clients |-> <<>>]
  /\ pending = [c \in Clients |-> {}]
  /\ issued = [c \in Clients |-> [t \in Tables |-> 0]]
  /\ dbErrors = [c \in Clients |-> [t \in Tables |-> 0]]
  /\ handlers = [c \in Clients |-> <<>>]
  /\ alerts = [c \in Clients |-> [m \in AlertTexts |-> 0]]
  /\ console = [c \in Clients |-> [m \in ConsoleTexts |-> 0]]
  /\ pushes = [c \in Clients |-> <<>>]

\* One participant opening the page with any routing parameters, against any
\* of the database contents, every round trip being able to fail; or two
\* pages opened for the same phase, one per view, against the full database,
\* where only the update can fail on the way.
PhasesInit ==
  /\ PlaylistsIdle
  /\ phases2 = [p \in PhaseIds |-> NoPhase]
  /\ \/ /\ \E db \in DbVariants : sessions2 = db.sessions2 /\ users = db.users
        /\ faults = Tables
        /\ page = [c \in Clients |-> IF c = "c1" THEN "unmounted" ELSE "absent"]
        /\ \E q \in Queries : query = [c \in Clients |-> IF c = "c1" THEN q ELSE NoQuery]
     \/ /\ sessions2 = FullDb.sessions2 /\ users = FullDb.users
        /\ faults = {"phases2"}
        /\ page = [c \in Clients |-> "unmounted"]
        /\ query = [c \in Clients |-> RaceQuery(c)]
  /\ userA = [c \in Clients |-> Null]
  /\ userB = [c \in Clients |-> Null]
  /\ userATracks = [c \in Clients |-> <<>>]
  /\ userBTracks = [c \in Clients |-> <<>>]
  /\ selectedTrack = [c \in Clients |-> ""]
  /\ searchTermA = [c \in Clients |-> <<>>]
  /\ searchTermB = [c \in Clients |-> <<>>]
  /\ pending = [c \in Clients |-> {}]
  /\ issued = [c \in Clients |-> [t \in Tables |-> 0]]
  /\ dbErrors = [c \in Clients |-> [t \in Tables |-> 0]]
  /\ handlers = [c \in Clients |-> <<>>]
  /\ alerts = [c \in Clients |-> [m \in AlertTexts |-> 0]]
  /\ console = [c \in Clients |-> [m \in ConsoleTexts |-> 0]]
  /\ pushes = [c \in Clients |-> <<>>]

(***************************************************************************)
(* Phase view: database client                                             *)
(***************************************************************************)
\* a round trip either reaches the database or fails on the way
Outcomes == {"ok", "fail"}

\* the outcomes a round trip to `table` can have in this run
NetOutcomes(table) == IF table \in faults THEN Outcomes ELSE {"ok"}

\* A reply is { data, error }; data is held as the set of the rows it carries,
\* so that data === null is data = {}.
TransportError == [error |-> "FetchError", data |-> {}]

NoData(res) == res.data = {}

Row(res) == CHOOSE r \in res.data : TRUE

\* .single(): exactly one row, or an error
Single(rows) ==
  IF Cardinality(rows) = 1
    THEN [error |-> Null, data |-> rows]
    ELSE [error |-> "PGRST116", data |-> {}]

\* from('sessions2').select('user_a, user_b').eq('id', session_id).single()
SelectSession(net, sid) ==
  IF net = "ok" THEN Single({r \in sessions2 : r.id = sid}) ELSE TransportError

\* from('track2').select('*').neq('self_disclosure_level', 0).eq('user_id', uid)
SelectTracks(net, uid) ==
  IF net = "ok"
    THEN [error |-> Null,
          data |-> {SelectSeq(Track2, LAMBDA r : r.self_disclosure_level # 0
                                                  /\ r.user_id = uid)}]
    ELSE TransportError

\* from('users').select('spotify_user_id').eq('spotify_user_id', uid).single()
SelectUser(net, uid) ==
  IF net = "ok" THEN Single({r \in users : r.spotify_user_id = uid}) ELSE TransportError

\* an update that sets the track and leaves the user column as it was
UpdatePhaseTrackOnly(table, pid, track, uid) ==
  [p \in PhaseIds |->
     IF p = pid
       THEN [select_tracks |-> track,
             select_tracks_user_id |-> table[p].select_tracks_user_id]
       ELSE table[p]]

\* from('phases2').update({select_tracks, select_tracks_user_id}).eq('id', pid):
\* one statement that sets both columns of every matching row
UpdatePhase(table, pid, track, uid) ==
  [p \in PhaseIds |->
     IF p = pid
       THEN [select_tracks |-> track, select_tracks_user_id |-> uid]
       ELSE table[p]]

Bump(f, c, t) == [f EXCEPT ![c][t] = @ + 1]

Say(f, c, msg) == [f EXCEPT ![c][msg] = @ + 1]

Add(f, c, x) == [f EXCEPT ![c] = Append(@, x)]

(***************************************************************************)
(* Phase view: effects                                                     *)
(***************************************************************************)
\* a database read in flight: the function suspended at its await and the
\* value its closure filters by
Read(fn, arg) == [fn |-> fn, arg |-> arg]

Reads(c, fn) == {r \in pending[c] : r.fn = fn}

\* first render: useEffect(..., [session_id]) runs and, unless session_id is
\* missing, fetchSessionUsers() is called and suspends at its await; the
\* effect on [userA, userB] runs too and returns at once (userA is null)
Mount(c) ==
  /\ page[c] = "unmounted"
  /\ page' = [page EXCEPT ![c] = "phaseA"]
  /\ IF Falsy(query[c].session_id)
       THEN UNCHANGED <<pending, issued>>
       ELSE /\ pending' = [pending EXCEPT ![c] =
                             @ \cup {Read("fetchSessionUsers", query[c].session_id)}]
            /\ issued' = Bump(issued, c, "sessions2")
  /\ UNCHANGED plVars
  /\ UNCHANGED <<sessions2, users, phases2, faults, query, userA, userB, userATracks,
                 userBTracks, selectedTrack, searchTermA, searchTermB,
                 dbErrors, handlers, alerts, console, pushes>>

\* the effect on [userA, userB], run after a render in which either changed:
\* the reads it starts
TrackEffect(a, b) ==
  IF Falsy(a) \/ Falsy(b)
    THEN {}
    ELSE {Read("fetchUserATracks", a), Read("fetchUserBTracks", b)}

\* a fetchSessionUsers that calls itself again after a failure
fetchSessionUsersResumeRetries(c, net) ==
  \E r \in Reads(c, "fetchSessionUsers") :
    /\ net \in NetOutcomes("sessions2")
    /\ LET res == SelectSession(net, r.arg) IN
         IF res.error # Null \/ NoData(res)
           THEN /\ console' = Say(console, c, "Failed to fetch session user_a")
                /\ dbErrors' = Bump(dbErrors, c, "sessions2")
                /\ issued' = Bump(issued, c, "sessions2")
                /\ UNCHANGED <<userA, userB, pending>>
           ELSE /\ userA' = [userA EXCEPT ![c] = Row(res).user_a]
                /\ userB' = [userB EXCEPT ![c] = Row(res).user_b]
                /\ LET started == TrackEffect(Row(res).user_a, Row(res).user_b) IN
                     /\ pending' = [pending EXCEPT ![c] = (@ \ {r}) \cup started]
                     /\ issued' = [issued EXCEPT ![c]["track2"] = @ + Cardinality(started)]
                /\ UNCHANGED <<console, dbErrors>>
    /\ UNCHANGED plVars
    /\ UNCHANGED <<sessions2, users, phases2, faults, page, query, userATracks,
                   userBTracks, selectedTrack, searchTermA, searchTermB, handlers,
                   alerts, pushes>>

\* fetchSessionUsers after its await, followed by the effect on
\* [userA, userB] that the two setState calls trigger
fetchSessionUsersResume(c, net) ==
  \E r \in Reads(c, "fetchSessionUsers") :
    /\ net \in NetOutcomes("sessions2")
    /\ LET res == SelectSession(net, r.arg) IN
         IF res.error # Null \/ NoData(res)
           THEN /\ console' = Say(console, c, "Failed to fetch session user_a")
                /\ dbErrors' = Bump(dbErrors, c, "sessions2")
                /\ pending' = [pending EXCEPT ![c] = @ \ {r}]
                /\ UNCHANGED <<userA, userB, issued>>
           ELSE /\ userA' = [userA EXCEPT ![c] = Row(res).user_a]
                /\ userB' = [userB EXCEPT ![c] = Row(res).user_b]
                /\ LET started == TrackEffect(Row(res).user_a, Row(res).user_b) IN
                     /\ pending' = [pending EXCEPT ![c] = (@ \ {r}) \cup started]
                     /\ issued' = [issued EXCEPT ![c]["track2"] = @ + Cardinality(started)]
                /\ UNCHANGED <<console, dbErrors>>
    /\ UNCHANGED plVars
    /\ UNCHANGED <<sessions2, users, phases2, faults, page, query, userATracks,
                   userBTracks, selectedTrack, searchTermA, searchTermB, handlers,
                   alerts, pushes>>

\* fetchUserATracks after its await (a setState of a page that was left
\* changes nothing)
fetchUserATracksResume(c, net) ==
  \E r \in Reads(c, "fetchUserATracks") :
    /\ net \in NetOutcomes("track2")
    /\ pending' = [pending EXCEPT ![c] = @ \ {r}]
    /\ LET res == SelectTracks(net, r.arg) IN
         IF res.error # Null
           THEN /\ console' = Say(console, c, "Error fetching tracks:")
                /\ dbErrors' = Bump(dbErrors, c, "track2")
                /\ UNCHANGED userATracks
           ELSE /\ IF NoData(res) \/ page[c] # "phaseA"
                     THEN UNCHANGED userATracks
                     ELSE userATracks' = [userATracks EXCEPT ![c] = Row(res)]
                /\ UNCHANGED <<console, dbErrors>>
    /\ UNCHANGED plVars
    /\ UNCHANGED <<sessions2, users, phases2, faults, page, query, userA, userB,
                   userBTracks, selectedTrack, searchTermA, searchTermB, issued,
                   handlers, alerts, pushes>>

\* fetchUserBTracks after its await
fetchUserBTracksResume(c, net) ==
  \E r \in Reads(c, "fetchUserBTracks") :
    /\ net \in NetOutcomes("track2")
    /\ pending' = [pending EXCEPT ![c] = @ \ {r}]
    /\ LET res == SelectTracks(net, r.arg) IN
         IF res.error # Null
           THEN /\ console' = Say(console, c, "Error fetching tracks:")
                /\ dbErrors' = Bump(dbErrors, c, "track2")
                /\ UNCHANGED userBTracks
           ELSE /\ IF NoData(res) \/ page[c] # "phaseA"
                     THEN UNCHANGED userBTracks
                     ELSE userBTracks' = [userBTracks EXCEPT ![c] = Row(res)]
                /\ UNCHANGED <<console, dbErrors>>
    /\ UNCHANGED plVars
    /\ UNCHANGED <<sessions2, users, phases2, faults, page, query, userA, userB,
                   userATracks, selectedTrack, searchTermA, searchTermB, issued,
                   handlers, alerts, pushes>>

(***************************************************************************)
(* Phase view: what is rendered                                            *)
(***************************************************************************)
\* a component without the return for phase 9
ViewNoEndScreen(c) ==
  IF page[c] # "phaseA" THEN "none"
  ELSE IF directionNum(query[c]) = 1 THEN "A"
  ELSE IF directionNum(query[c]) = 2 THEN "B"
  ELSE "null"

\* which of the four returns of the component is taken
View(c) ==
  IF page[c] # "phaseA" THEN "none"
  ELSE IF phaseNumbersNum(query[c]) = 9 THEN "end"
  ELSE IF directionNum(query[c]) = 1 THEN "A"
  ELSE IF directionNum(query[c]) = 2 THEN "B"
  ELSE "null"

\* list.filter(track => track.name.toLowerCase().includes(term.toLowerCase()))
Filter(list, term) ==
  SelectSeq(list, LAMBDA t : includes(toLowerCase(t.name), toLowerCase(term)))

filteredUserATracks(c) == Filter(userATracks[c], searchTermA[c])

filteredUserBTracks(c) == Filter(userBTracks[c], searchTermB[c])

TrackIds(list) == {list[i].spotify_track_id : i \in 1..Len(list)}

\* onChange of the search box of user A's view
setSearchTermA(c, term) ==
  /\ View(c) = "A"
  /\ term # searchTermA[c]
  /\ searchTermA' = [searchTermA EXCEPT ![c] = term]
  /\ UNCHANGED plVars
  /\ UNCHANGED <<sessions2, users, phases2, faults, page, query, userA, userB, userATracks,
                 userBTracks, selectedTrack, searchTermB, pending, issued,
                 dbErrors, handlers, alerts, console, pushes>>

\* onChange of the search box of user B's view
setSearchTermB(c, term) ==
  /\ View(c) = "B"
  /\ term # searchTermB[c]
  /\ searchTermB' = [searchTermB EXCEPT ![c] = term]
  /\ UNCHANGED plVars
  /\ UNCHANGED <<sessions2, users, phases2, faults, page, query, userA, userB, userATracks,
                 userBTracks, selectedTrack, searchTermA, pending, issued,
                 dbErrors, handlers, alerts, console, pushes>>

\* a view that renders the cards of both users' lists
setSelectedTrackAnyList(c, t) ==
  /\ View(c) \in {"A", "B"}
  /\ t \in TrackIds(filteredUserATracks(c)) \cup TrackIds(filteredUserBTracks(c))
  /\ t # selectedTrack[c]
  /\ selectedTrack' = [selectedTrack EXCEPT ![c] = t]
  /\ UNCHANGED plVars
  /\ UNCHANGED <<sessions2, users, phases2, faults, page, query, userA, userB,
                 userATracks, userBTracks, searchTermA, searchTermB, pending,
                 issued, dbErrors, handlers, alerts, console, pushes>>

\* onClick of a track card: the cards are those of the filtered list of the
\* view that is rendered
setSelectedTrack(c, t) ==
  /\ \/ View(c) = "A" /\ t \in TrackIds(filteredUserATracks(c))
     \/ View(c) = "B" /\ t \in TrackIds(filteredUserBTracks(c))
  /\ t # selectedTrack[c]
  /\ selectedTrack' = [selectedTrack EXCEPT ![c] = t]
  /\ UNCHANGED plVars
  /\ UNCHANGED <<sessions2, users, phases2, faults, page, query, userA, userB, userATracks,
                 userBTracks, searchTermA, searchTermB, pending, issued,
                 dbErrors, handlers, alerts, console, pushes>>

(***************************************************************************)
(* Phase view: the submit handlers                                         *)
(***************************************************************************)
HandlerCount == Len(handlers["c1"]) + Len(handlers["c2"])

\* the closure of one invocation
Invocation(c, who, pc) ==
  [who |-> who, pc |-> pc, phase_id |-> query[c].phase_id,
   selectedTrack |-> selectedTrack[c],
   user |-> IF who = "A" THEN userA[c] ELSE userB[c],
   spotifyId |-> Null, upError |-> Null]

\* an invocation that returned at `pc`: its closure is released
Returned(who, pc) ==
  [who |-> who, pc |-> pc, phase_id |-> Null, selectedTrack |-> Null,
   user |-> Null, spotifyId |-> Null, upError |-> Null]

\* a submit handler whose guard forgets phase_id
HandleSelectNoPhaseCheck(c, who) ==
  /\ HandlerCount < MaxHandlers
  /\ IF Falsy(selectedTrack[c])
       THEN /\ alerts' = Say(alerts, c, "no track selected")
            /\ handlers' = Add(handlers, c, Returned(who, "guardReturn"))
            /\ UNCHANGED issued
       ELSE /\ handlers' = Add(handlers, c, Invocation(c, who, "lookup"))
            /\ issued' = Bump(issued, c, "users")
            /\ UNCHANGED alerts
  /\ UNCHANGED plVars
  /\ UNCHANGED <<sessions2, users, phases2, faults, page, query, userA, userB,
                 userATracks, userBTracks, selectedTrack, searchTermA, searchTermB,
                 pending, dbErrors, console, pushes>>

\* handleSelectUserATracks / handleSelectUserBTracks from the click to the
\* first await (or to the return of the guard)
HandleSelect(c, who) ==
  /\ HandlerCount < MaxHandlers
  /\ IF Falsy(query[c].phase_id) \/ Falsy(selectedTrack[c])
       THEN /\ alerts' = Say(alerts, c, "no track selected")
            /\ handlers' = Add(handlers, c, Returned(who, "guardReturn"))
            /\ UNCHANGED issued
       ELSE /\ handlers' = Add(handlers, c, Invocation(c, who, "lookup"))
            /\ issued' = Bump(issued, c, "users")
            /\ UNCHANGED alerts
  /\ UNCHANGED plVars
  /\ UNCHANGED <<sessions2, users, phases2, faults, page, query, userA, userB, userATracks,
                 userBTracks, selectedTrack, searchTermA, searchTermB, pending,
                 dbErrors, console, pushes>>

\* the button of a view is disabled while selectedTrack is empty
handleSelectUserATracks(c) ==
  /\ View(c) = "A"
  /\ ~Falsy(selectedTrack[c])
  /\ HandleSelect(c, "A")

handleSelectUserBTracks(c) ==
  /\ View(c) = "B"
  /\ ~Falsy(selectedTrack[c])
  /\ HandleSelect(c, "B")

\* after the await of the users lookup: alert and return, or issue the update
LookupResume(c, h, net) ==
  /\ h \in 1..Len(handlers[c])
  /\ handlers[c][h].pc = "lookup"
  /\ net \in NetOutcomes("users")
  /\ LET inv == handlers[c][h]
         res == SelectUser(net, inv.user) IN
       IF res.error # Null \/ NoData(res)
         THEN /\ alerts' = Say(alerts, c, IF inv.who = "A" THEN "userA lookup failed"
                                                          ELSE "userB lookup failed")
              /\ dbErrors' = Bump(dbErrors, c, "users")
              /\ handlers' = [handlers EXCEPT ![c][h] = Returned(inv.who, "lookupReturn")]
              /\ UNCHANGED issued
         ELSE /\ handlers' = [handlers EXCEPT ![c][h].pc = "update",
                                              ![c][h].spotifyId = Row(res).spotify_user_id]
              /\ issued' = Bump(issued, c, "phases2")
              /\ UNCHANGED <<alerts, dbErrors>>
  /\ UNCHANGED plVars
  /\ UNCHANGED <<sessions2, users, phases2, faults, page, query, userA, userB, userATracks,
                 userBTracks, selectedTrack, searchTermA, searchTermB, pending,
                 console, pushes>>

\* the database serves the update request of an invocation
UpdateServe(c, h, net) ==
  /\ h \in 1..Len(handlers[c])
  /\ handlers[c][h].pc = "update"
  /\ net \in NetOutcomes("phases2")
  /\ LET inv == handlers[c][h] IN
       IF net = "ok"
         THEN /\ phases2' = UpdatePhase(phases2, inv.phase_id, inv.selectedTrack,
                                        inv.spotifyId)
              /\ handlers' = [handlers EXCEPT ![c][h].pc = "updated"]
         ELSE /\ handlers' = [handlers EXCEPT ![c][h].pc = "updated",
                                              ![c][h].upError = "FetchError"]
              /\ UNCHANGED phases2
  /\ UNCHANGED plVars
  /\ UNCHANGED <<sessions2, users, faults, page, query, userA, userB, userATracks,
                 userBTracks, selectedTrack, searchTermA, searchTermB, pending,
                 issued, dbErrors, alerts, console, pushes>>

\* the success branch of the continuation of the update
Decided(c, h) ==
  /\ alerts' = Say(alerts, c, "track decided")
  /\ pushes' = Add(pushes, c, [pathname |-> "/ipad/phaseA/player",
                               query |-> query[c]])
  /\ page' = [page EXCEPT ![c] = "player"]
  /\ userA' = [userA EXCEPT ![c] = Null]
  /\ userB' = [userB EXCEPT ![c] = Null]
  /\ userATracks' = [userATracks EXCEPT ![c] = <<>>]
  /\ userBTracks' = [userBTracks EXCEPT ![c] = <<>>]
  /\ selectedTrack' = [selectedTrack EXCEPT ![c] = ""]
  /\ searchTermA' = [searchTermA EXCEPT ![c] = <<>>]
  /\ searchTermB' = [searchTermB EXCEPT ![c] = <<>>]
  /\ handlers' = [handlers EXCEPT ![c][h] = Returned(handlers[c][h].who, "pushed")]

\* a continuation of the update that logs a failure without telling the user
UpdateResumeSilent(c, h) ==
  /\ h \in 1..Len(handlers[c])
  /\ handlers[c][h].pc = "updated"
  /\ LET inv == handlers[c][h] IN
       IF inv.upError # Null
         THEN /\ console' = Say(console, c, "phases update error:")
              /\ dbErrors' = Bump(dbErrors, c, "phases2")
              /\ handlers' = [handlers EXCEPT ![c][h] = Returned(inv.who, "updateReturn")]
              /\ UNCHANGED <<alerts, page, pushes, userA, userB, userATracks,
                             userBTracks, selectedTrack, searchTermA, searchTermB>>
         ELSE Decided(c, h) /\ UNCHANGED <<console, dbErrors>>
  /\ UNCHANGED plVars
  /\ UNCHANGED <<sessions2, users, phases2, faults, query, pending, issued>>

\* a continuation of the update that misses the return after a failure
UpdateResumeIgnoresError(c, h) ==
  /\ h \in 1..Len(handlers[c])
  /\ handlers[c][h].pc = "updated"
  /\ LET inv == handlers[c][h] IN
       IF inv.upError # Null
         THEN /\ console' = Say(console, c, "phases update error:")
              /\ dbErrors' = Bump(dbErrors, c, "phases2")
              /\ Decided(c, h)
         ELSE Decided(c, h) /\ UNCHANGED <<console, dbErrors>>
  /\ UNCHANGED plVars
  /\ UNCHANGED <<sessions2, users, phases2, faults, query, pending, issued>>

\* after the await of the update: log and alert, or alert and router.push.
\* The push replaces the page: the component is unmounted and its state cells
\* are gone (invocations that are still suspended keep their closures).
UpdateResume(c, h) ==
  /\ h \in 1..Len(handlers[c])
  /\ handlers[c][h].pc = "updated"
  /\ LET inv == handlers[c][h] IN
       IF inv.upError # Null
         THEN /\ console' = Say(console, c, "phases update error:")
              /\ alerts' = Say(alerts, c, "update failed")
              /\ dbErrors' = Bump(dbErrors, c, "phases2")
              /\ handlers' = [handlers EXCEPT ![c][h] = Returned(inv.who, "updateReturn")]
              /\ UNCHANGED <<page, pushes, userA, userB, userATracks, userBTracks,
                             selectedTrack, searchTermA, searchTermB>>
         ELSE Decided(c, h) /\ UNCHANGED <<console, dbErrors>>
  /\ UNCHANGED plVars
  /\ UNCHANGED <<sessions2, users, phases2, faults, query, pending, issued>>

PhasesNext ==
  \/ \E c \in Clients : Mount(c)
  \/ \E c \in Clients, net \in Outcomes : fetchSessionUsersResume(c, net)
  \/ \E c \in Clients, net \in Outcomes : fetchUserATracksResume(c, net)
  \/ \E c \in Clients, net \in Outcomes : fetchUserBTracksResume(c, net)
  \/ \E c \in Clients, term \in SearchTerms : setSearchTermA(c, term)
  \/ \E c \in Clients, term \in SearchTerms : setSearchTermB(c, term)
  \/ \E c \in Clients, t \in TrackIds(Track2) : setSelectedTrack(c, t)
  \/ \E c \in Clients : handleSelectUserATracks(c)
  \/ \E c \in Clients : handleSelectUserBTracks(c)
  \/ \E c \in Clients, h \in 1..MaxHandlers, net \in Outcomes : LookupResume(c, h, net)
  \/ \E c \in Clients, h \in 1..MaxHandlers, net \in Outcomes : UpdateServe(c, h, net)
  \/ \E c \in Clients, h \in 1..MaxHandlers : UpdateResume(c, h)

PhasesSpec == PhasesInit /\ [][PhasesNext]_vars

PlaylistsInit == PlaylistsIdle /\ PhasesIdle

PlaylistsNext ==
  \/ fetchPlaylists
  \/ \E kind \in ResponseKinds : fetchPlaylistsResume(kind)
  \/ \E p \in PlaylistIds : fetchTracks(p)
  \/ \E p \in PlaylistIds, kind \in ResponseKinds : fetchTracksResume(p, kind)

PlaylistsSpec == PlaylistsInit /\ [][PlaylistsNext]_vars

\* The replies of the database and the first render are not up to the user:
\* a mounted page gets its effects run and every read in flight is answered.
PhasesFairSpec ==
  /\ PhasesInit
  /\ [][PhasesNext]_vars
  /\ \A c \in Clients :
       /\ WF_vars(Mount(c))
       /\ WF_vars(\E net \in Outcomes : fetchSessionUsersResume(c, net))
       /\ WF_vars(\E net \in Outcomes : fetchUserATracksResume(c, net))
       /\ WF_vars(\E net \in Outcomes : fetchUserBTracksResume(c, net))

(***************************************************************************)
(* Helpers of the properties                                               *)
(***************************************************************************)
RECURSIVE Sum(_, _)
Sum(f, S) ==
  IF S = {} THEN 0
  ELSE LET x == CHOOSE y \in S : TRUE IN f[x] + Sum(f, S \ {x})

\* number of dialogs shown / lines logged
Total(f) == Sum(f, DOMAIN f)

FailureKinds == {"notOk", "reject", "rejectOther"}

\* the row of sessions2 the page of client c asks for
SessionRows(c) == {r \in sessions2 : r.id = query[c].session_id}

SessionHoldsBoth(c) ==
  \E r \in SessionRows(c) : ~Falsy(r.user_a) /\ ~Falsy(r.user_b)

\* the invocations of client c that are suspended at an await
Suspended(c) ==
  {h \in 1..Len(handlers[c]) : handlers[c][h].pc \in {"lookup", "update", "updated"}}

(***************************************************************************)
(* Playlist browser                                                        *)
(***************************************************************************)
\* C1: a click on the selected playlist deselects it, empties tracks and
\* issues no request; a click on any other playlist selects it and issues
\* exactly one GET /api/playlists/p/tracks.
C1_FetchTracksToggles ==
  [][\A p \in PlaylistIds :
       fetchTracks(p) =>
         IF p = selectedPlaylist
           THEN /\ selectedPlaylist' = Null
                /\ tracks' = <<>>
                /\ requests' = requests
           ELSE /\ selectedPlaylist' = p
                /\ requests' = Append(requests, TracksUrl(p))]_vars

\* a playlist was deselected after two tracks requests had been issued
C1_Witness ==
  /\ selectedPlaylist = Null
  /\ TracksRequested = 2
  /\ tracks = <<>>
  /\ error = Null

\* C4: every failed fetch sets error, and once error is set it stays set, no
\* playlist is (de)selected and no request is issued any more.
C4_ErrorIsFinal ==
  [][/\ \A kind \in FailureKinds : fetchPlaylistsResume(kind) => error' # Null
     /\ \A p \in PlaylistIds, kind \in FailureKinds :
          fetchTracksResume(p, kind) => error' # Null
     /\ error # Null =>
          /\ error' # Null
          /\ requests' = requests
          /\ selectedPlaylist' = selectedPlaylist
          /\ \A p \in PlaylistIds : ~Clickable(p)]_vars

\* the error is shown while another tracks request is still to be answered
C4_Witness ==
  /\ error # Null
  /\ selectedPlaylist # Null
  /\ \E p \in PlaylistIds : inflight[p] > 0

\* C9: with a playlist selected and not loading, tracks is empty or that
\* playlist's list; with none selected, tracks is empty.
C9_TracksBelongToSelection ==
  /\ (selectedPlaylist # Null /\ ~loadingTracks) =>
       (tracks = <<>> \/ tracks = ServerTracks(selectedPlaylist))
  /\ selectedPlaylist = Null => tracks = <<>>

\* number of fetchTracks calls suspended at their await
InFlightTracks == Sum(inflight, PlaylistIds)

\* C11: loadingTracks is true whenever a tracks request is in flight, and
\* false once every issued tracks request has been answered.
C11_LoadingIffInFlight ==
  /\ InFlightTracks > 0 => loadingTracks
  /\ InFlightTracks = 0 => ~loadingTracks

\* the half of C11 about the end: with no tracks request in flight,
\* loadingTracks is false
C11_IdleMeansNotLoading == InFlightTracks = 0 => ~loadingTracks

(***************************************************************************)
(* Phase view                                                              *)
(***************************************************************************)
\* C2: a submit handler that runs without phase_id or without a selected
\* track shows the alert and does nothing else.
C2_GuardOnlyAlerts ==
  [][\A c \in Clients :
       ( /\ handleSelectUserATracks(c) \/ handleSelectUserBTracks(c)
         /\ Falsy(query[c].phase_id) \/ Falsy(selectedTrack[c]) )
       => /\ alerts' = Say(alerts, c, "no track selected")
          /\ issued' = issued
          /\ Suspended(c)' = Suspended(c)
          /\ UNCHANGED <<sessions2, users, phases2, page, query, userA, userB,
                         userATracks, userBTracks, selectedTrack, searchTermA,
                         searchTermB, pending, dbErrors, console, pushes>>]_vars

\* the alert of the guard was shown on a page that has a track selected
C2_Witness ==
  \E c \in Clients :
    /\ alerts[c]["no track selected"] > 0
    /\ ~Falsy(selectedTrack[c])
    /\ Falsy(query[c].phase_id)

\* C3 as stated: every reply that carries an error is both logged and alerted.
C3_EveryErrorLoggedAndAlerted ==
  [][\A c \in Clients, t \in Tables :
       dbErrors'[c][t] > dbErrors[c][t] =>
         /\ Total(console'[c]) > Total(console[c])
         /\ Total(alerts'[c]) > Total(alerts[c])]_vars

\* C3 amended: every error ends the function with nothing further issued; an
\* error of sessions2 or track2 is logged only, one of users is alerted
\* only, one of the phases2 update is logged and alerted.
C3_ErrorHandlingPerTable ==
  [][\A c \in Clients :
       /\ dbErrors'[c]["sessions2"] > dbErrors[c]["sessions2"] =>
            /\ console' = Say(console, c, "Failed to fetch session user_a")
            /\ UNCHANGED <<alerts, issued, userA, userB, pushes, page>>
       /\ dbErrors'[c]["track2"] > dbErrors[c]["track2"] =>
            /\ console' = Say(console, c, "Error fetching tracks:")
            /\ UNCHANGED <<alerts, issued, userATracks, userBTracks, pushes, page>>
       /\ dbErrors'[c]["users"] > dbErrors[c]["users"] =>
            /\ Total(alerts'[c]) = Total(alerts[c]) + 1
            /\ alerts'[c]["userA lookup failed"] + alerts'[c]["userB lookup failed"]
                 = alerts[c]["userA lookup failed"] + alerts[c]["userB lookup failed"] + 1
            /\ UNCHANGED <<console, issued, phases2, pushes, page>>
       /\ dbErrors'[c]["phases2"] > dbErrors[c]["phases2"] =>
            /\ console' = Say(console, c, "phases update error:")
            /\ alerts' = Say(alerts, c, "update failed")
            /\ UNCHANGED <<issued, phases2, pushes, page>>]_vars

\* one page met an error of track2, of users and of the update
C3_Witness ==
  \E c \in Clients :
    /\ dbErrors[c]["track2"] > 0
    /\ dbErrors[c]["users"] > 0
    /\ dbErrors[c]["phases2"] > 0

\* the (select_tracks, select_tracks_user_id) pairs one page can write: a
\* candidate track of a user together with that user
OwnPairs ==
  {[select_tracks |-> Track2[i].spotify_track_id,
    select_tracks_user_id |-> Track2[i].user_id] : i \in 1..Len(Track2)}

\* C5: updates of the same phase are not checked against each other: every
\* update the database serves is applied whatever the record holds, so the
\* record holds the pair of the update served last, never a mix of two; every
\* update answered without error ends in the success alert and the push.
C5_LastWriterWins ==
  /\ [](\A p \in PhaseIds : phases2[p] = NoPhase \/ phases2[p] \in OwnPairs)
  /\ [][\A c \in Clients, h \in 1..MaxHandlers :
          /\ UpdateServe(c, h, "ok") =>
               phases2'[handlers[c][h].phase_id] =
                 [select_tracks |-> handlers[c][h].selectedTrack,
                  select_tracks_user_id |-> handlers[c][h].spotifyId]
          /\ (UpdateResume(c, h) /\ handlers[c][h].upError = Null) =>
               /\ alerts' = Say(alerts, c, "track decided")
               /\ Len(pushes'[c]) = Len(pushes[c]) + 1
               /\ page'[c] = "player"]_vars

\* both pages decided a track for phase ph1 and went on to the player; the
\* record holds the pair of user A's page
C5_Witness ==
  /\ \A c \in Clients : alerts[c]["track decided"] = 1 /\ page[c] = "player"
  /\ query["c1"].phase_id = query["c2"].phase_id
  /\ phases2["ph1"] = [select_tracks |-> "t2", select_tracks_user_id |-> "uA"]

\* C6: an update is issued only with phase_numbers other than 9 and
\* directions 1 or 2, and it carries the session's user_a for directions 1
\* and user_b for directions 2; in the other views no handler ever runs.
C6_RoutingDecidesTurn ==
  \A c \in Clients :
    /\ issued[c]["phases2"] > 0 =>
         /\ phaseNumbersNum(query[c]) # 9
         /\ directionNum(query[c]) \in {1, 2}
    /\ (phaseNumbersNum(query[c]) = 9 \/ directionNum(query[c]) \notin {1, 2}) =>
         /\ handlers[c] = <<>>
         /\ issued[c]["users"] = 0
    /\ \A h \in 1..Len(handlers[c]) :
         handlers[c][h].pc \in {"update", "updated"} =>
           \E r \in SessionRows(c) :
             handlers[c][h].spotifyId =
               IF directionNum(query[c]) = 1 THEN r.user_a ELSE r.user_b

\* an update was issued from the view of user B
C6_Witness ==
  \E c \in Clients :
    /\ issued[c]["phases2"] > 0
    /\ directionNum(query[c]) = 2
    /\ phases2["ph1"].select_tracks_user_id = "uB"

\* C7: within one invocation the update is issued only by the continuation
\* of a lookup that returned a row, the push only by the continuation of an
\* update that returned no error, together with the success alert and with
\* the route's own parameters; an invocation that returned does nothing more.
C7_HandlerStepsInOrder ==
  [][\A c \in Clients :
       /\ \A h \in 1..Len(handlers[c]) :
            LET inv == handlers[c][h]
                nxt == handlers'[c][h] IN
              /\ (nxt.pc = "update" /\ inv.pc # "update") =>
                   /\ inv.pc = "lookup"
                   /\ nxt.spotifyId = inv.user
                   /\ \E r \in users : r.spotify_user_id = inv.user
                   /\ dbErrors' = dbErrors
                   /\ issued' = Bump(issued, c, "phases2")
              /\ (nxt.pc = "pushed" /\ inv.pc # "pushed") =>
                   /\ inv.pc = "updated"
                   /\ inv.upError = Null
                   /\ alerts' = Say(alerts, c, "track decided")
                   /\ pushes'[c] = Append(pushes[c],
                        [pathname |-> "/ipad/phaseA/player",
                         query |-> [session_id |-> query[c].session_id,
                                    phase_id |-> query[c].phase_id,
                                    phase_numbers |-> query[c].phase_numbers,
                                    directions |-> query[c].directions]])
              /\ (nxt.pc \in {"lookupReturn", "updateReturn"} /\ inv.pc # nxt.pc) =>
                   UNCHANGED <<issued, phases2, pushes, page>>
              /\ inv.pc \in {"guardReturn", "lookupReturn", "updateReturn", "pushed"} =>
                   nxt = inv
       /\ issued'[c]["phases2"] # issued[c]["phases2"] =>
            \E h \in 1..Len(handlers[c]) :
              handlers[c][h].pc = "lookup" /\ handlers'[c][h].pc = "update"
       /\ phases2' # phases2 =>
            \E d \in Clients : \E h \in 1..Len(handlers[d]) :
              handlers[d][h].pc = "update" /\ handlers'[d][h].pc = "updated"
       /\ pushes'[c] # pushes[c] =>
            \E h \in 1..Len(handlers[c]) :
              handlers[c][h].pc = "updated" /\ handlers'[c][h].pc = "pushed"]_vars

\* one invocation ran to its push while another one of the same page had
\* stopped at a failed step
C7_Witness ==
  \E c \in Clients :
    /\ Len(pushes[c]) = 1
    /\ \E h \in 1..Len(handlers[c]) : handlers[c][h].pc = "pushed"
    /\ \E h \in 1..Len(handlers[c]) :
         handlers[c][h].pc \in {"lookupReturn", "updateReturn"}

\* C8 as stated: a mounted page whose session record holds both identifiers
\* eventually has issued the two track2 fetches.
C8_PollsUntilBothUsers ==
  \A c \in Clients :
    (page[c] = "phaseA" /\ SessionHoldsBoth(c)) ~> (issued[c]["track2"] = 2)

\* C8 amended: the session record is fetched once per mount and never again;
\* after a failed fetch nothing is in flight and no track2 fetch is ever
\* issued; the two track2 fetches are issued, once, exactly when that one
\* fetch returned both identifiers.
C8_SingleSessionFetch ==
  \A c \in Clients :
    /\ issued[c]["sessions2"] <= 1
    /\ issued[c]["track2"] \in {0, 2}
    /\ issued[c]["track2"] = 2 =>
         /\ SessionHoldsBoth(c)
         /\ dbErrors[c]["sessions2"] = 0
    /\ dbErrors[c]["sessions2"] > 0 =>
         /\ pending[c] = {}
         /\ issued[c]["track2"] = 0
         /\ userA[c] = Null /\ userB[c] = Null
    /\ (issued[c]["sessions2"] = 1 /\ Reads(c, "fetchSessionUsers") = {}
        /\ dbErrors[c]["sessions2"] = 0 /\ SessionHoldsBoth(c)) =>
         issued[c]["track2"] = 2

\* the one fetch failed although the session record holds both identifiers
C8_Witness ==
  \E c \in Clients :
    /\ page[c] = "phaseA"
    /\ SessionHoldsBoth(c)
    /\ dbErrors[c]["sessions2"] = 1
    /\ pending[c] = {}

\* the candidate set of the user whose turn it is on the page of client c
TurnTracks(c) ==
  IF directionNum(query[c]) = 1 THEN userATracks[c] ELSE userBTracks[c]

\* the rows of track2 the page fetches for the user whose turn it is
TurnRows(c) ==
  {Track2[i] : i \in {j \in 1..Len(Track2) :
     /\ Track2[j].self_disclosure_level # 0
     /\ \E r \in SessionRows(c) :
          Track2[j].user_id = IF directionNum(query[c]) = 1 THEN r.user_a ELSE r.user_b}}

\* C10: the selected track, and so the track of every invocation and of
\* every update, is a fetched candidate of the user whose turn it is; no
\* update is issued unless the session fetch returned both identifiers;
\* typing in the search box leaves selectedTrack alone.
C10_SubmitsOwnCandidate ==
  /\ [](\A c \in Clients :
          /\ ~Falsy(selectedTrack[c]) =>
               selectedTrack[c] \in TrackIds(TurnTracks(c))
          /\ \A h \in Suspended(c) :
               handlers[c][h].selectedTrack \in {r.spotify_track_id : r \in TurnRows(c)}
          /\ issued[c]["phases2"] > 0 =>
               /\ issued[c]["track2"] = 2
               /\ dbErrors[c]["sessions2"] = 0
               /\ SessionHoldsBoth(c))
  /\ [][\A c \in Clients :
          /\ Len(handlers'[c]) > Len(handlers[c]) =>
               \/ handlers'[c][Len(handlers'[c])].selectedTrack = selectedTrack[c]
               \/ handlers'[c][Len(handlers'[c])].pc = "guardReturn"
          /\ \A term \in SearchTerms :
               (setSearchTermA(c, term) \/ setSearchTermB(c, term)) =>
                 selectedTrack' = selectedTrack]_vars

\* an update is in flight for a track that the search term hides
C10_Witness ==
  \E c \in Clients, h \in 1..MaxHandlers :
    /\ h \in Suspended(c)
    /\ handlers[c][h].pc = "update"
    /\ page[c] = "phaseA"
    /\ handlers[c][h].selectedTrack = selectedTrack[c]
    /\ selectedTrack[c] \notin TrackIds(filteredUserATracks(c))
    /\ directionNum(query[c]) = 1

====
